---- MODULE Spec2Model ----
(***************************************************************************)
(* A model of cPing's probing engine: the Host facade (signals, result     *)
(* ring, cached summary, start/stop), the ICMP and TCP probe loops and the *)
(* process-wide ICMP receiver.                                             *)
(*                                                                         *)
(* Threads: API callers (the renderer, or any user of the Host API), one   *)
(* probe thread instance per start() that found the host idle, and the     *)
(* receiver.  Time is not modelled: a timeout may fire at any moment and   *)
(* the latency the receiver computes is drawn from Latencies.              *)
(***************************************************************************)
EXTENDS Integers, Sequences, FiniteSets, TLC

\* ------------------------------------------------------------------ bounds

\* Lower bound on the number of results (program constant).
RESULTS_LENGTH_MINIMUM == 50

\* Probe thread instances one host may create.
MaxThreads == 2

\* Results the probe threads of one host may append.
MaxProbes == 2

\* Appends beyond RESULTS_LENGTH_MINIMUM in the ring-only specification.
MaxExtra == 2

AllHosts == {"h1", "h2"}

Callers == {"c1", "c2"}

Threads == 1..MaxThreads

\* Latencies (in ticks) a reply or a TCP handshake may take; -1 is a timeout.
Latencies == {0, 2}

\* protocol.interval in ticks: a latency of 0 is on time, one of 2 is late.
Interval0 == 1

\* Lengths the renderer may ask for (any integer).
Lengths == {-1, 0, 49, 50, 51, 52}

\* ICMP identifiers and the values random.randrange gives a new sequence.
Idents == {1, 2}

\* Session.packet_struct.size: struct.Struct('!BBHHHHf'), 14 bytes.
PacketSize == 14

\* A new session's sequence: the last value before the counter wraps.
SeqInits == {65535}

\* protocol.interval values the API caller assigns.
Intervals == {1, 3}

\* Values assigned to protocol.port: integers inside and outside the range,
\* and a value that is not an int (isint false: '80', 80.5).
PortValues ==
    {[isint |-> TRUE, val |-> v] : v \in {0, 1, 2, 65535, 65536}}
        \cup {[isint |-> FALSE, val |-> 2]}

\* Constructions of icmp.Ping the callers may complete.
MaxBuilt == 3

\* errno of the OSErrors the socket calls raise.
Errnos == {1, 666}

\* cping.protocols.IGNORED_OS_ERRORS as the TCP tests set it.
IGNORED_OS_ERRORS == {1}

NoneVal == "None"

\* None as a field of a summary (a quotient with denominator 0).
Null == <<0, 0>>

VARIABLES
    hosts,          \* the hosts constructed
    kind,           \* kind[h]: "icmp" or "tcp", the host's protocol
    interval,       \* protocol.interval
    port,           \* tcp.Ping._port, the value stored by the setter
    icmp_ping,      \* icmp.Ping's class attributes and the receivers started
    sort_key,       \* Layout.render: sort_key (0 also stands for None)
    table,          \* Layout.render: the rows of the table on screen
    burst_mode,     \* burst_mode[h]: Host._burst_mode's flag
    stop_signal,    \* stop_signal[h]: Host._stop_signal's flag
    ready_signal,   \* ready_signal[h]: Host._ready_signal's flag
    status,         \* status[h]: Host._status
    raw_results,    \* raw_results[h]: the deque's contents, oldest first
    maxlen,         \* maxlen[h]: the deque's maxlen
    next_rid,       \* next_rid[h]: identity of the next result object
    cache,          \* cache[h]: the lru_cache of _get_results_summary
    test_thread,    \* test_thread[h]: Host._test_thread (0: None)
    thr,            \* thr[h][k]: probe thread instance k of host h
    host_map,       \* Ping.host_map: identifier -> entry
    network,        \* echo requests sent and not yet answered
    caller,         \* caller[c]: what API caller c is executing
    joined,         \* joined[h]: stop(block=True) returned, no start() since
    rcv             \* the receiver thread: its position and locals

vars == <<hosts, kind, interval, port, icmp_ping, sort_key, table, burst_mode, stop_signal, ready_signal, status,
          raw_results, maxlen, next_rid, cache, test_thread, thr, host_map,
          network, caller, joined, rcv>>

hostVars == <<hosts, kind, interval, port, icmp_ping, sort_key, table>>

signalVars == <<burst_mode, stop_signal, ready_signal>>

resultVars == <<raw_results, maxlen, next_rid, cache>>

threadVars == <<test_thread, thr, host_map, network>>

\* ------------------------------------------------------------ result store

\* The dictionary add_result builds; rid stands for the object's identity.
Result(rid, latency, error, hidden, info) ==
    [rid |-> rid, latency |-> latency, error |-> error, hidden |-> hidden,
     info |-> info]

\* A deque without maxlen.
DequeAppendUnbounded(d, ml, r) == Append(d, r)

\* collections.deque.append on a deque of maximum length ml: a full deque
\* discards its oldest item.
DequeAppend(d, ml, r) ==
    IF Len(d) >= ml THEN Append(Tail(d), r) ELSE Append(d, r)

RECURSIVE DequeExtend(_, _, _)
\* collections.deque.extend: the items of s are appended one by one, oldest
\* first: the first half of s, then the second (the recursion stays shallow,
\* and the test on left has TLC compute it before going on).
DequeExtend(d, ml, s) ==
    IF Len(s) = 0 THEN d
    ELSE IF Len(s) = 1 THEN DequeAppend(d, ml, s[1])
    ELSE LET half == Len(s) \div 2
             left == DequeExtend(d, ml, SubSeq(s, 1, half))
         IN  IF Len(left) >= 0
             THEN DequeExtend(left, ml, SubSeq(s, half + 1, Len(s)))
             ELSE left

\* A resize that keeps the oldest ml items instead of the newest.
DequeKeepOldest(s, ml) == SubSeq(s, 1, IF Len(s) < ml THEN Len(s) ELSE ml)

\* collections.deque(iterable, maxlen=ml)
Deque(s, ml) == DequeExtend(<<>>, ml, s)

\* max(length, RESULTS_LENGTH_MINIMUM)
NewLength(length) ==
    IF length > RESULTS_LENGTH_MINIMUM THEN length ELSE RESULTS_LENGTH_MINIMUM

\* Host.results: the results that are not hidden.
Results(raw) == SelectSeq(raw, LAMBDA x : ~x.hidden)

RECURSIVE SeqSum(_)
SeqSum(s) == IF s = <<>> THEN 0 ELSE Head(s) + SeqSum(Tail(s))

SeqMin(s) == CHOOSE x \in {s[i] : i \in 1..Len(s)} :
                 \A y \in {s[i] : i \in 1..Len(s)} : x <= y

SeqMax(s) == CHOOSE x \in {s[i] : i \in 1..Len(s)} :
                 \A y \in {s[i] : i \in 1..Len(s)} : x >= y

\* Host._get_results_summary over the visible results.  A quotient is the
\* pair <<numerator, denominator>>; stdev is given by the sample variance
\* (times 10^6) whose root statistics.stdev returns.
GetResultsSummary(visible) ==
    LET all == [i \in 1..Len(visible) |-> visible[i].latency]
        results == SelectSeq(all, LAMBDA l : l >= 0)
        n == Len(results)
        squares == [i \in 1..n |-> results[i] * results[i]]
    IN  IF n = 0
        THEN [min |-> Null, avg |-> Null, max |-> Null,
              stdev |-> Null, loss |-> Null]
        ELSE [min |-> <<SeqMin(results) * 1000, 1>>,
              avg |-> <<SeqSum(results) * 1000, n>>,
              max |-> <<SeqMax(results) * 1000, 1>>,
              stdev |-> IF n > 1
                        THEN <<(n * SeqSum(squares)
                                - SeqSum(results) * SeqSum(results)) * 1000000,
                               n * (n - 1)>>
                        ELSE Null,
              loss |-> <<Len(all) - n, Len(all)>>]

\* The value in the lru_cache of a host with no cached summary.
NoCache == [valid |-> FALSE, value |-> GetResultsSummary(<<>>)]

\* self.raw_results.append(result); self._cached_results_summary.cache_clear()
AddResult(h, r) ==
    /\ raw_results' = [raw_results EXCEPT ![h] = DequeAppend(@, maxlen[h], r)]
    /\ next_rid' = [next_rid EXCEPT ![h] = @ + 1]
    /\ cache' = [cache EXCEPT ![h] = NoCache]
    /\ UNCHANGED maxlen

\* result[field] = v on the result object rid, wherever the ring holds it.
SetField(raw, rid, field, v) ==
    [i \in 1..Len(raw) |-> IF raw[i].rid = rid
                           THEN [raw[i] EXCEPT ![field] = v] ELSE raw[i]]

\* result['latency'] of the result object rid (-1, as written at its
\* creation, when the ring no longer holds it).
ResultLatency(raw, rid) ==
    IF \E i \in 1..Len(raw) : raw[i].rid = rid
    THEN raw[CHOOSE i \in 1..Len(raw) : raw[i].rid = rid].latency
    ELSE -1


\* ------------------------------------------------------------- API callers

\* A caller between two calls: arg is the value it last assigned to
\* protocol.port (none: a non-integer 0) and exc the exception its last call
\* raised.
Idle == [pc |-> "idle", h |-> "h1", member |-> "stop", value |-> FALSE,
         ret |-> "idle", anyv |-> FALSE, n |-> 0, copy |-> <<>>,
         arg |-> [isint |-> FALSE, val |-> 0], exc |-> NoneVal]

IsIdle(c) == caller[c].pc = "idle"

\* A call of a member's patched set() (value TRUE) or clear() (value FALSE),
\* continuing at ret when it returns.
PatchedCall(c, h, m, v, ret) ==
    caller' = [caller EXCEPT ![c] = [Idle EXCEPT !.pc = "ev_orig", !.h = h,
                                     !.member = m, !.value = v, !.ret = ret]]

\* host.burst_mode.set() / .clear(), host.stop_signal.set() / .clear()
CallMember(c, h, m, v) ==
    /\ IsIdle(c)
    /\ PatchedCall(c, h, m, v, "idle")
    /\ UNCHANGED <<hostVars, signalVars, status, resultVars, threadVars, joined, rcv>>

\* original_set() / original_clear(): the member's own flag.
OriginalSetClear(c) ==
    LET h == caller[c].h IN
    /\ caller[c].pc = "ev_orig"
    /\ IF caller[c].member = "burst"
       THEN /\ burst_mode' = [burst_mode EXCEPT ![h] = caller[c].value]
            /\ UNCHANGED stop_signal
       ELSE /\ stop_signal' = [stop_signal EXCEPT ![h] = caller[c].value]
            /\ UNCHANGED burst_mode
    /\ caller' = [caller EXCEPT ![c].pc = "upd_burst"]
    /\ UNCHANGED <<hostVars, ready_signal, status, resultVars, threadVars, joined, rcv>>

\* update(): any() asks the first member, burst_mode, and stops there if set.
UpdateReadBurst(c) ==
    LET h == caller[c].h IN
    /\ caller[c].pc = "upd_burst"
    /\ caller' = [caller EXCEPT ![c].pc = IF burst_mode[h] THEN "upd_write"
                                           ELSE "upd_stop",
                                ![c].anyv = burst_mode[h]]
    /\ UNCHANGED <<hostVars, signalVars, status, resultVars, threadVars, joined, rcv>>

\* update(): any() asks the second member, stop_signal.
UpdateReadStop(c) ==
    LET h == caller[c].h IN
    /\ caller[c].pc = "upd_stop"
    /\ caller' = [caller EXCEPT ![c].pc = "upd_write",
                                ![c].anyv = stop_signal[h]]
    /\ UNCHANGED <<hostVars, signalVars, status, resultVars, threadVars, joined, rcv>>

\* update() with its else branch lost: the shared event is only ever set.
SharedWriteStuck(anyv) == TRUE

\* What update() writes to the shared event given what any() returned.
SharedWrite(anyv) == anyv

\* update(): shared_event.set() or shared_event.clear(); the patched method
\* returns.
UpdateWrite(c) ==
    LET h == caller[c].h IN
    /\ caller[c].pc = "upd_write"
    /\ ready_signal' = [ready_signal EXCEPT ![h] = SharedWrite(caller[c].anyv)]
    /\ caller' = [caller EXCEPT ![c] = IF caller[c].ret = "idle" THEN Idle
                                       ELSE [caller[c] EXCEPT !.pc = caller[c].ret]]
    /\ UNCHANGED <<hostVars, burst_mode, stop_signal, status, resultVars,
                   threadVars, joined, rcv>>

\* The steps of a patched member call.
PatchedStep(c) ==
    \/ OriginalSetClear(c)
    \/ UpdateReadBurst(c)
    \/ UpdateReadStop(c)
    \/ UpdateWrite(c)

\* ----------------------------------------------------------- probe threads

\* A thread instance not yet created, and one that has exited.  timeout is
\* the timeout of the wait the thread is in, woken whether its last wait in
\* Host.wait ended before that timeout, port the port getaddrinfo was given,
\* dest the port of the last connect, ctimeout the timeout of its socket,
\* outcome and errno what that connect did, exc the exception that left
\* ping_loop.
Unborn == [pc |-> "unborn", rid |-> 0, latency |-> -1, ident |-> 0, seq |-> 0,
           event |-> FALSE, timeout |-> 0, woken |-> FALSE, port |-> 0,
           dest |-> 0, ctimeout |-> 0, outcome |-> NoneVal, errno |-> 0,
           exc |-> NoneVal]

Dead == [Unborn EXCEPT !.pc = "dead"]

\* icmp.Ping before its first construction, and after one construction: both
\* sockets created, one receiver thread started.
NotConstructed == [v4 |-> FALSE, v6 |-> FALSE, receivers |-> 0, built |-> 0]

Constructed == [v4 |-> TRUE, v6 |-> TRUE, receivers |-> 1, built |-> 1]

IsAlive(h, k) == thr[h][k].pc \notin {"unborn", "dead"}

\* Host.is_running
is_running(h) == test_thread[h] # 0 /\ IsAlive(h, test_thread[h])

NoEntry == [host |-> NoneVal, k |-> 0, interval |-> 0]

SetThr(h, k, t) == thr' = [thr EXCEPT ![h][k] = t]

\* ping_loop_wrapper: time.sleep(delay) returns.
Delay(h, k) ==
    /\ thr[h][k].pc = "delay"
    /\ SetThr(h, k, [thr[h][k] EXCEPT !.pc = "resolve"])
    /\ UNCHANGED <<hostVars, signalVars, status, resultVars, test_thread,
                   host_map, network, caller, joined, rcv>>

\* A loop that goes on after gaierror.
GaiErrorIgnored(kd) == IF kd = "icmp" THEN "session" ELSE "connect"

\* except socket.gaierror: ...; return
GaiError(kd) == "dead"

\* ping_loop: socket.getaddrinfo returns the address, or raises gaierror and
\* the loop returns with the status set.
Resolve(h, k) ==
    /\ thr[h][k].pc = "resolve"
    /\ \/ /\ SetThr(h, k, [thr[h][k] EXCEPT
                           !.pc = IF kind[h] = "icmp" THEN "session" ELSE "connect",
                           !.port = IF kind[h] = "icmp" THEN 0 ELSE port.val])
          /\ UNCHANGED status
       \/ /\ status' = [status EXCEPT ![h] = "Host resolution failed"]
          /\ SetThr(h, k, IF GaiError(kind[h]) = "dead" THEN Dead
                          ELSE [thr[h][k] EXCEPT !.pc = GaiError(kind[h])])
    /\ UNCHANGED <<hostVars, signalVars, resultVars, test_thread, host_map,
                   network, caller, joined, rcv>>

\* Session.__init__: a random sequence and a random identifier that is not in
\* Ping.host_map; threading.Event() for the replies.
NewSession(h, k) ==
    /\ thr[h][k].pc = "session"
    /\ \E id \in Idents, s \in SeqInits :
          /\ id <= Cardinality(hosts)
          /\ host_map[id] = NoEntry
          /\ SetThr(h, k, [thr[h][k] EXCEPT !.pc = "register", !.ident = id,
                                            !.seq = s, !.event = FALSE])
    /\ UNCHANGED <<hostVars, signalVars, status, resultVars, test_thread,
                   host_map, network, caller, joined, rcv>>

\* Ping.host_map[session.identifier] = host, receive_event, self.interval
Register(h, k) ==
    /\ thr[h][k].pc = "register"
    /\ host_map' = [host_map EXCEPT ![thr[h][k].ident] =
                       [host |-> h, k |-> k, interval |-> interval]]
    /\ SetThr(h, k, [thr[h][k] EXCEPT !.pc = "loop"])
    /\ UNCHANGED <<hostVars, signalVars, status, resultVars, test_thread,
                   network, caller, joined, rcv>>

\* Where the ICMP loop goes from its test: out of the loop when the stop
\* signal is set, into the next iteration otherwise.
LoopTarget(stop) == IF stop THEN "unregister" ELSE "clear"

\* while not host.stop_signal.is_set()
LoopCheck(h, k) ==
    /\ thr[h][k].pc = "loop"
    /\ stop_signal[h] \/ next_rid[h] <= MaxProbes
    /\ SetThr(h, k, [thr[h][k] EXCEPT !.pc = LoopTarget(stop_signal[h]),
                                      !.woken = FALSE])
    /\ UNCHANGED <<hostVars, signalVars, status, resultVars, test_thread,
                   host_map, network, caller, joined, rcv>>

\* receive_event.clear(); latency = -1
ClearEvent(h, k) ==
    /\ thr[h][k].pc = "clear"
    /\ SetThr(h, k, [thr[h][k] EXCEPT !.pc = "reserve", !.event = FALSE,
                                      !.latency = -1])
    /\ UNCHANGED <<hostVars, signalVars, status, resultVars, test_thread,
                   host_map, network, caller, joined, rcv>>

\* A sequence that is not cut to 16 bits.
NextSequenceUnbounded(seq) == seq + 1

\* Session.create_icmp_echo: self.sequence + 1 & 0xffff
NextSequence(seq) == (seq + 1) % 65536

\* request = session.create_icmp_echo();
\* result = host.add_result(latency, hidden=True, info=session.sequence)
Reserve(h, k) ==
    LET seq == NextSequence(thr[h][k].seq) IN
    /\ thr[h][k].pc = "reserve"
    /\ AddResult(h, Result(next_rid[h], -1, FALSE, TRUE, seq))
    /\ SetThr(h, k, [thr[h][k] EXCEPT !.pc = "send", !.seq = seq,
                                      !.rid = next_rid[h]])
    /\ UNCHANGED <<hostVars, signalVars, status, test_thread, host_map,
                   network, caller, joined, rcv>>

\* The interval as it was when the protocol was constructed.
IntervalAtConstruction(h) == Interval0

\* self.interval, self.protocol.interval: read where it is used.
ProtocolInterval(h) == interval

\* sendto: the request leaves (its echo reply, of the same size, identifier
\* and sequence, is then in flight) and receive_event.wait(self.interval)
\* begins, or OSError sets the status and breaks the loop.
Send(h, k) ==
    /\ thr[h][k].pc = "send"
    /\ \/ /\ network' = network \cup {[size |-> PacketSize,
                                       ident |-> thr[h][k].ident,
                                       seq |-> thr[h][k].seq]}
          /\ SetThr(h, k, [thr[h][k] EXCEPT !.pc = "await",
                                            !.timeout = ProtocolInterval(h)])
          /\ UNCHANGED status
       \/ /\ status' = [status EXCEPT ![h] = "OSError"]
          /\ SetThr(h, k, [thr[h][k] EXCEPT !.pc = "unregister"])
          /\ UNCHANGED network
    /\ UNCHANGED <<hostVars, signalVars, resultVars, test_thread, host_map,
                   caller, joined, rcv>>

\* wait() called without a timeout: it returns only with the flag set.
EventWaitForever(flag) == flag

\* threading.Event.wait(timeout) returns: the flag is set, or the timeout has
\* passed (which, time not being modelled, may be at any moment).
EventWait(flag) == TRUE

\* receive_event.wait(self.interval): true with the event set (the latency is
\* read from the result), false on a timeout (the latency stays -1).
AwaitReply(h, k) ==
    /\ thr[h][k].pc = "await"
    /\ EventWait(thr[h][k].event)
    /\ SetThr(h, k, [thr[h][k] EXCEPT
                     !.pc = "unhide",
                     !.timeout = 0,
                     !.latency = IF thr[h][k].event
                                 THEN ResultLatency(raw_results[h], thr[h][k].rid)
                                 ELSE -1])
    /\ UNCHANGED <<hostVars, signalVars, status, resultVars, test_thread,
                   host_map, network, caller, joined, rcv>>

\* result['hidden'] = False
Unhide(h, k) ==
    /\ thr[h][k].pc = "unhide"
    /\ raw_results' = [raw_results EXCEPT ![h] =
                          SetField(@, thr[h][k].rid, "hidden", FALSE)]
    /\ SetThr(h, k, [thr[h][k] EXCEPT !.pc = "wait"])
    /\ UNCHANGED <<hostVars, signalVars, status, maxlen, next_rid, cache,
                   test_thread, host_map, network, caller, joined, rcv>>

\* A wait that ignores the time the probe took.
WaitTimeoutFull(itv, latency) == itv

\* Host.wait: the timeout given to ready_signal.wait.
WaitTimeout(itv, latency) == itv - latency

\* Host.wait: return at once if latency == -1 or burst mode is set, otherwise
\* block on ready_signal.
Wait(h, k) ==
    /\ thr[h][k].pc = "wait"
    /\ SetThr(h, k, IF thr[h][k].latency = -1 \/ burst_mode[h]
                    THEN [thr[h][k] EXCEPT !.pc = "loop"]
                    ELSE [thr[h][k] EXCEPT
                          !.pc = "sleep",
                          !.timeout = WaitTimeout(ProtocolInterval(h),
                                                  thr[h][k].latency)])
    /\ UNCHANGED <<hostVars, signalVars, status, resultVars, test_thread,
                   host_map, network, caller, joined, rcv>>

\* self.ready_signal.wait(self.protocol.interval - latency) returns: the
\* signal is set or the timeout has passed.
\* threading.Event.wait(timeout) may return before the timeout has passed
\* only with the flag set (and only if there is time left to wait).
EndsEarly(flag, timeout) == flag /\ timeout > 0

Sleep(h, k) ==
    /\ thr[h][k].pc = "sleep"
    /\ EventWait(ready_signal[h])
    /\ \E early \in BOOLEAN :
          /\ early => EndsEarly(ready_signal[h], thr[h][k].timeout)
          /\ SetThr(h, k, [thr[h][k] EXCEPT !.pc = "loop", !.timeout = 0,
                                            !.woken = early])
    /\ UNCHANGED <<hostVars, signalVars, status, resultVars, test_thread,
                   host_map, network, caller, joined, rcv>>

\* Ping.host_map.pop(session.identifier); ping_loop returns.
Unregister(h, k) ==
    /\ thr[h][k].pc = "unregister"
    /\ host_map' = [host_map EXCEPT ![thr[h][k].ident] = NoEntry]
    /\ SetThr(h, k, Dead)
    /\ UNCHANGED <<hostVars, signalVars, status, resultVars, test_thread,
                   network, caller, joined, rcv>>

\* What one iteration of the TCP loop may meet: socket() or settimeout()
\* raising OSError ("setup"), a handshake ("open"), a refusal or reset
\* ("refused": ConnectionError), socket.timeout ("timeout") or another OSError
\* of connect ("oserror").
TcpOutcomes ==
    {[what |-> w, errno |-> 0] : w \in {"open", "refused", "timeout"}}
        \cup {[what |-> w, errno |-> e] : w \in {"setup", "oserror"}, e \in Errnos}

\* The port of the address getaddrinfo returned when the loop began.
LocationResolved(current, resolved) == resolved

\* location = host_info[4][:1] + (self.port, ) + host_info[4][2:]
Location(current, resolved) == current

\* socket.socket() and settimeout() are called outside the try statement:
\* their OSError leaves ping_loop.
Propagates(o) == o.what = "setup"

\* A loop that takes a refusal for a handshake.
ProbeErrorNever(o) == FALSE

\* except ConnectionError: error = True
ProbeError(o) == o.what = "refused"

\* except OSError: latency = -1; otherwise the time connect took.
ProbeLatency(o, lat) == IF o.what \in {"timeout", "oserror"} THEN -1 ELSE lat

\* Ping.get_timeout(latency, host): 0 if latency == -1 or burst mode is set,
\* the rest of the interval otherwise.
GetTimeout(latency, burst, itv) ==
    IF latency = -1 \/ burst THEN 0 ELSE itv - latency

\* One iteration of the TCP loop up to its wait: socket(), settimeout(interval),
\* connect((address, port)), host.add_result(latency, error), close() and
\* get_timeout(latency, host).
Connect(h, k) ==
    /\ thr[h][k].pc = "connect"
    /\ \E o \in TcpOutcomes, t \in Latencies :
          LET lat == ProbeLatency(o, t) IN
          /\ o.what \in {"setup", "timeout", "oserror"} => t = 0
          /\ IF Propagates(o)
             THEN /\ SetThr(h, k, [Dead EXCEPT !.outcome = o.what,
                                               !.errno = o.errno,
                                               !.exc = "OSError"])
                  /\ UNCHANGED resultVars
             ELSE /\ AddResult(h, Result(next_rid[h], lat, ProbeError(o), FALSE, -1))
                  /\ SetThr(h, k, [thr[h][k] EXCEPT
                                   !.pc = "tsleep", !.latency = lat,
                                   !.rid = next_rid[h],
                                   !.dest = Location(port.val, thr[h][k].port),
                                   !.ctimeout = ProtocolInterval(h),
                                   !.outcome = o.what, !.errno = o.errno,
                                   !.timeout = GetTimeout(lat, burst_mode[h],
                                                          ProtocolInterval(h))])
    /\ UNCHANGED <<hostVars, signalVars, status, test_thread, host_map,
                   network, caller, joined, rcv>>

\* Where the TCP loop goes when stop_signal.wait returns: out of the loop
\* (true: the signal is set), into the next iteration (false: timeout).
TcpTarget(stop) == IF stop THEN "dead" ELSE "connect"

\* if host.stop_signal.wait(self.get_timeout(latency, host)): break
TcpSleep(h, k) ==
    /\ thr[h][k].pc = "tsleep"
    /\ EventWait(stop_signal[h])
    /\ stop_signal[h] \/ next_rid[h] <= MaxProbes
    /\ SetThr(h, k, IF TcpTarget(stop_signal[h]) = "dead" THEN Dead
                    ELSE [thr[h][k] EXCEPT !.pc = TcpTarget(stop_signal[h]),
                                           !.timeout = 0, !.dest = 0,
                                           !.ctimeout = 0,
                                           !.outcome = NoneVal, !.errno = 0])
    /\ UNCHANGED <<hostVars, signalVars, status, resultVars, test_thread,
                   host_map, network, caller, joined, rcv>>

\* One step of probe thread k of host h.
ProberStep(h, k) ==
    \/ Delay(h, k)
    \/ Resolve(h, k)
    \/ NewSession(h, k)
    \/ Register(h, k)
    \/ LoopCheck(h, k)
    \/ ClearEvent(h, k)
    \/ Reserve(h, k)
    \/ Send(h, k)
    \/ AwaitReply(h, k)
    \/ Unhide(h, k)
    \/ Wait(h, k)
    \/ Sleep(h, k)
    \/ Unregister(h, k)
    \/ Connect(h, k)
    \/ TcpSleep(h, k)

\* ---------------------------------------------------------------- receiver

\* The receiver thread blocked in select.select: p the datagram in hand, lat
\* its latency, e the registry entry read, i the position of the walk over the
\* ring, nrid the appends the ring had seen when the walk began, rid the result
\* found, err the exception that ended the thread; malformed records that a
\* datagram was discarded as too short.
Serving == [pc |-> "select", p |-> [size |-> 0, ident |-> 0, seq |-> 0],
            lat |-> 0, e |-> NoEntry, i |-> 0, nrid |-> 0, rid |-> 0,
            err |-> NoneVal, malformed |-> FALSE]

\* A search that ends on the newest result of the ring.
FindResultNewest(raw, seq) ==
    IF \E i \in 1..Len(raw) : raw[i].info = seq THEN Len(raw) ELSE 0

\* The first result of the ring whose info is the sequence (0: none).
FindResult(raw, seq) ==
    IF \E i \in 1..Len(raw) : raw[i].info = seq
    THEN CHOOSE i \in 1..Len(raw) :
            /\ raw[i].info = seq
            /\ \A j \in 1..(i - 1) : raw[j].info # seq
    ELSE 0

\* A receiver that takes every reply as late.
OnTimeNever(latency, ivl) == FALSE

\* A receiver that takes every reply as on time.
OnTimeAlways(latency, ivl) == TRUE

\* Whether the receiver takes a reply of this latency as on time.
OnTime(latency, ivl) == latency <= ivl

\* recv(8192)[-Session.packet_struct.size:]: the length of what is kept.
Strip(size) == IF size > PacketSize THEN PacketSize ELSE size

\* A receiver that takes every datagram as a whole packet.
MalformedNever(size) == FALSE

\* len(data) < Session.packet_struct.size
Malformed(size) == Strip(size) < PacketSize

\* identifier not in Ping.host_map
Unknown(id) == id \notin Idents \/ host_map[id] = NoEntry

\* Ping.host_map[identifier], for the identifiers the membership test passes.
Lookup(id) == IF id \in Idents THEN host_map[id] ELSE host_map[1]

\* Ping.receiver, one datagram, handled without another thread running in
\* between: datagram p arrives, latency lat after its timestamp.  Too short,
\* unknown identifier or sequence: dropped.  Otherwise the latency is
\* written to the first result with that sequence, and the event is set (on
\* time) or the result is marked as an error (late).
Receive(p, lat) ==
    LET e == Lookup(p.ident)
        i == FindResult(raw_results[e.host], p.seq)
    IN  /\ rcv.pc = "select"
        /\ icmp_ping.receivers > 0
        /\ network' = network \ {p}
        /\ rcv' = [rcv EXCEPT !.malformed = @ \/ Malformed(p.size)]
        /\ IF Malformed(p.size) \/ Unknown(p.ident) \/ i = 0
           THEN UNCHANGED <<raw_results, thr>>
           ELSE /\ raw_results' = [raw_results EXCEPT ![e.host][i] =
                                      [@ EXCEPT !.latency = lat,
                                                !.error = IF OnTime(lat, e.interval)
                                                          THEN @ ELSE TRUE]]
                /\ thr' = [thr EXCEPT ![e.host][e.k].event =
                                         IF OnTime(lat, e.interval) THEN TRUE ELSE @]
        /\ UNCHANGED <<hostVars, signalVars, status, maxlen, next_rid, cache,
                       test_thread, host_map, caller, joined>>

ReceiverStep == \E p \in network, lat \in Latencies : Receive(p, lat)

\* The receiver statement by statement, for the interleavings of the other
\* threads with its handling of one datagram.

\* The receiver back in select.select.
Reselect(r) == [Serving EXCEPT !.malformed = r.malformed]

\* The receiver thread ended by an uncaught exception.
Raise(r, exception) == [r EXCEPT !.pc = "failed", !.err = exception]

RcvVars == <<hostVars, signalVars, status, maxlen, next_rid, cache,
             test_thread, host_map, caller, joined>>

\* select, recv, the length test and unpack.
RcvSelect(p) ==
    /\ rcv.pc = "select"
    /\ icmp_ping.receivers > 0
    /\ network' = network \ {p}
    /\ rcv' = IF Malformed(p.size)
              THEN [rcv EXCEPT !.malformed = TRUE]
              ELSE [rcv EXCEPT !.pc = "member", !.p = p]
    /\ UNCHANGED <<RcvVars, raw_results, thr>>

\* if identifier not in Ping.host_map: continue
RcvMember ==
    /\ rcv.pc = "member"
    /\ rcv' = IF Unknown(rcv.p.ident) THEN Reselect(rcv)
              ELSE [rcv EXCEPT !.pc = "lookup"]
    /\ UNCHANGED <<RcvVars, raw_results, thr, network>>

\* latency = time.perf_counter() - timestamp;
\* host, event, interval = Ping.host_map[identifier]: KeyError when the
\* identifier is no longer a key.
RcvLookup(lat) ==
    /\ rcv.pc = "lookup"
    /\ rcv' = IF Unknown(rcv.p.ident) THEN Raise(rcv, "KeyError")
              ELSE [rcv EXCEPT !.pc = "iter", !.lat = lat,
                               !.e = Lookup(rcv.p.ident)]
    /\ UNCHANGED <<RcvVars, raw_results, thr, network>>

\* for result in host.raw_results: the iterator is created on the deque the
\* host holds, and notes the deque's state.
RcvIter ==
    /\ rcv.pc = "iter"
    /\ rcv' = [rcv EXCEPT !.pc = "walk", !.i = 1, !.nrid = next_rid[rcv.e.host]]
    /\ UNCHANGED <<RcvVars, raw_results, thr, network>>

\* The deque iterated was appended to since the iterator was created (no
\* resize replaces the deque in the specification this is part of).
Mutated(h, nrid) == next_rid[h] # nrid

\* The iterator's next() and the test of the result it yields: RuntimeError
\* (deque mutated during iteration) when the deque has changed, the end of the
\* loop when it is exhausted, a match, or the next result.
RcvWalk ==
    LET h == rcv.e.host
        raw == raw_results[h]
    IN  /\ rcv.pc = "walk"
        /\ rcv' = IF Mutated(h, rcv.nrid) THEN Raise(rcv, "RuntimeError")
                  ELSE IF rcv.i > Len(raw) THEN Reselect(rcv)
                  ELSE IF raw[rcv.i].info = rcv.p.seq
                       THEN [rcv EXCEPT !.pc = "write", !.rid = raw[rcv.i].rid]
                  ELSE [rcv EXCEPT !.i = @ + 1]
        /\ UNCHANGED <<RcvVars, raw_results, thr, network>>

\* result['latency'] = latency
RcvWrite ==
    /\ rcv.pc = "write"
    /\ raw_results' = [raw_results EXCEPT ![rcv.e.host] =
                          SetField(@, rcv.rid, "latency", rcv.lat)]
    /\ rcv' = [rcv EXCEPT !.pc = "signal"]
    /\ UNCHANGED <<RcvVars, thr, network>>

\* if latency <= interval: event.set()  else: result['error'] = True; break
RcvSignal ==
    /\ rcv.pc = "signal"
    /\ IF OnTime(rcv.lat, rcv.e.interval)
       THEN /\ thr' = [thr EXCEPT ![rcv.e.host][rcv.e.k].event = TRUE]
            /\ UNCHANGED raw_results
       ELSE /\ raw_results' = [raw_results EXCEPT ![rcv.e.host] =
                                  SetField(@, rcv.rid, "error", TRUE)]
            /\ UNCHANGED thr
    /\ rcv' = Reselect(rcv)
    /\ UNCHANGED <<RcvVars, network>>

RcvStep ==
    \/ \E p \in network : RcvSelect(p)
    \/ RcvMember
    \/ \E lat \in Latencies : RcvLookup(lat)
    \/ RcvIter
    \/ RcvWalk
    \/ RcvWrite
    \/ RcvSignal

\* Datagrams the ICMP sockets may deliver that answer no probe: one cut short
\* (whose bytes happen to read as a live identifier and sequence), one with
\* an identifier never registered, one (with its IP header, as macOS hands
\* it over) with a registered identifier and a sequence no probe carried.
Strays ==
    {[size |-> 8, ident |-> 1, seq |-> 0],
     [size |-> PacketSize, ident |-> 3, seq |-> 0],
     [size |-> 34, ident |-> 1, seq |-> 9]}

\* select.select returns a socket holding a stray datagram.
Inject(d) ==
    /\ network \cap Strays = {}
    /\ network' = network \cup {d}
    /\ UNCHANGED <<hostVars, signalVars, status, resultVars, test_thread, thr,
                   host_map, caller, joined, rcv>>


\* --------------------------------------------------- start, stop, the ring

\* The thread instance the next threading.Thread(...) creates (0: the bound
\* on instances is reached).
NextThread(h) ==
    IF \E k \in Threads : thr[h][k].pc = "unborn"
    THEN CHOOSE k \in Threads :
            thr[h][k].pc = "unborn" /\ \A j \in 1..(k - 1) : thr[h][j].pc # "unborn"
    ELSE 0

\* Host.start: self._status = None; self.stop_signal.clear() begins.
CallStart(c, h) ==
    /\ IsIdle(c)
    /\ status' = [status EXCEPT ![h] = NoneVal]
    /\ joined' = [joined EXCEPT ![h] = FALSE]
    /\ PatchedCall(c, h, "stop", FALSE, "start_check")
    /\ UNCHANGED <<hostVars, signalVars, resultVars, threadVars, rcv>>

\* start() without its is_running() test.
StartSpawnsAlways(h) == TRUE

\* Whether start() creates a thread.
StartSpawns(h) == ~is_running(h)

\* Host.start: if not self.is_running(): create and start the probe thread.
StartCheck(c) ==
    LET h == caller[c].h
        k == NextThread(h)
    IN  /\ caller[c].pc = "start_check"
        /\ IF StartSpawns(h)
           THEN /\ k # 0
                /\ kind[h] = "tcp" => next_rid[h] <= MaxProbes
                /\ thr' = [thr EXCEPT ![h][k] = [Unborn EXCEPT !.pc = "delay"]]
                /\ test_thread' = [test_thread EXCEPT ![h] = k]
           ELSE UNCHANGED <<thr, test_thread>>
        /\ caller' = [caller EXCEPT ![c] = Idle]
        /\ UNCHANGED <<hostVars, signalVars, status, resultVars, host_map,
                       network, joined, rcv>>

\* Host.stop: self.stop_signal.set() begins.
CallStop(c, h, block) ==
    /\ IsIdle(c)
    /\ PatchedCall(c, h, "stop", TRUE, IF block THEN "stop_join" ELSE "idle")
    /\ UNCHANGED <<hostVars, signalVars, status, resultVars, threadVars, joined, rcv>>

\* stop(block=True) that does not join.
JoinReturnsAtOnce(h, k) == TRUE

\* threading.Thread.join() returns: the thread has exited.
JoinReturns(h, k) == ~IsAlive(h, k)

\* Host.stop(block=True): self._test_thread.join() returns once the thread
\* has exited (AttributeError when the host was never started).
StopJoin(c) ==
    LET h == caller[c].h IN
    /\ caller[c].pc = "stop_join"
    /\ IF test_thread[h] = 0
       THEN UNCHANGED joined
       ELSE /\ JoinReturns(h, test_thread[h])
            /\ joined' = [joined EXCEPT ![h] = TRUE]
    /\ caller' = [caller EXCEPT ![c] = Idle]
    /\ UNCHANGED <<hostVars, signalVars, status, resultVars, threadVars, rcv>>

\* Host.set_results_length(length) is called.
CallSetResultsLength(c, h, length) ==
    /\ IsIdle(c)
    /\ caller' = [caller EXCEPT ![c] = [Idle EXCEPT !.pc = "srl_check",
                                                    !.h = h, !.n = length]]
    /\ UNCHANGED <<hostVars, signalVars, status, resultVars, threadVars, joined, rcv>>

\* length = max(length, RESULTS_LENGTH_MINIMUM);
\* if self.raw_results.maxlen == length: return
SrlCheck(c) ==
    LET h == caller[c].h IN
    /\ caller[c].pc = "srl_check"
    /\ caller' = [caller EXCEPT ![c] =
                     IF maxlen[h] = NewLength(caller[c].n) THEN Idle
                     ELSE [caller[c] EXCEPT !.pc = "srl_copy"]]
    /\ UNCHANGED <<hostVars, signalVars, status, resultVars, threadVars, joined, rcv>>

\* collections.deque(self.raw_results, maxlen=length): the new deque is built.
SrlCopy(c) ==
    LET h == caller[c].h IN
    /\ caller[c].pc = "srl_copy"
    /\ caller' = [caller EXCEPT ![c].pc = "srl_store",
                                ![c].copy = Deque(raw_results[h],
                                                  NewLength(caller[c].n))]
    /\ UNCHANGED <<hostVars, signalVars, status, resultVars, threadVars, joined, rcv>>

\* self.raw_results = <the new deque>
SrlStore(c) ==
    LET h == caller[c].h IN
    /\ caller[c].pc = "srl_store"
    /\ raw_results' = [raw_results EXCEPT ![h] = caller[c].copy]
    /\ maxlen' = [maxlen EXCEPT ![h] = NewLength(caller[c].n)]
    /\ caller' = [caller EXCEPT ![c] = Idle]
    /\ UNCHANGED <<hostVars, signalVars, status, next_rid, cache, threadVars,
                   joined, rcv>>

\* Host.results_summary: what reading the property returns, the cached value
\* if there is one and otherwise _get_results_summary().
results_summary(h) ==
    IF cache[h].valid THEN cache[h].value
    ELSE GetResultsSummary(Results(raw_results[h]))

\* The renderer reads host.results_summary: the value returned is cached.
ReadSummary(c, h) ==
    /\ IsIdle(c)
    /\ cache' = [cache EXCEPT ![h] = [valid |-> TRUE,
                                      value |-> results_summary(h)]]
    /\ UNCHANGED <<hostVars, signalVars, status, raw_results, maxlen,
                   next_rid, threadVars, caller, joined, rcv>>

\* host.add_result(i) called through the API, as the tests do: the latency is
\* the number of the call.
CallAddResult(c, h) ==
    /\ IsIdle(c)
    /\ next_rid[h] <= RESULTS_LENGTH_MINIMUM + MaxExtra
    /\ AddResult(h, Result(next_rid[h], next_rid[h], FALSE, FALSE, -1))
    /\ UNCHANGED <<hostVars, signalVars, status, threadVars, caller, joined, rcv>>

\* ------------------------------------------- protocol settings, construction

\* A setter that stores whatever it is given.
PortSetterUnchecked(v) == NoneVal

\* The port setter's checks: the exception raised, None if the value passes.
PortSetter(v) ==
    IF ~v.isint THEN "TypeError"
    ELSE IF ~(0 < v.val /\ v.val < 65536) THEN "ValueError"
    ELSE NoneVal

\* protocol.port = v on the protocol of a TCP host (tcp.Ping.__init__ assigns
\* its argument through the same setter).
SetPort(c, v) ==
    /\ IsIdle(c)
    /\ \E h \in hosts : kind[h] = "tcp"
    /\ port' = IF PortSetter(v) = NoneVal THEN v ELSE port
    /\ caller' = [caller EXCEPT ![c] = [Idle EXCEPT !.arg = v,
                                                    !.exc = PortSetter(v)]]
    /\ UNCHANGED <<hosts, kind, interval, icmp_ping, sort_key, table, signalVars, status,
                   resultVars, threadVars, joined, rcv>>

\* protocol.interval = v, v a number (the setter's type test passes).
SetInterval(c, v) ==
    /\ IsIdle(c)
    /\ interval' = v
    /\ caller' = [caller EXCEPT ![c] = Idle]
    /\ UNCHANGED <<hosts, kind, port, icmp_ping, sort_key, table, signalVars, status,
                   resultVars, threadVars, joined, rcv>>

\* icmp.Ping(...) is called.
CallConstruct(c) ==
    /\ IsIdle(c)
    /\ icmp_ping.built < MaxBuilt
    /\ caller' = [caller EXCEPT ![c] = [Idle EXCEPT !.pc = "ctor_check"]]
    /\ UNCHANGED <<hostVars, signalVars, status, resultVars, threadVars,
                   joined, rcv>>

\* super().__init__(*args, **kwargs): the construction completes.
Built(cls) == [cls EXCEPT !.built = @ + 1]

\* if Ping.icmpv4_socket is None
CtorCheck(c) ==
    /\ caller[c].pc = "ctor_check"
    /\ IF icmp_ping.v4
       THEN /\ icmp_ping' = Built(icmp_ping)
            /\ caller' = [caller EXCEPT ![c] = Idle]
       ELSE /\ caller' = [caller EXCEPT ![c].pc = "ctor_v4"]
            /\ UNCHANGED icmp_ping
    /\ UNCHANGED <<hosts, kind, interval, port, sort_key, table, signalVars, status,
                   resultVars,
                   threadVars, joined, rcv>>

\* Ping.icmpv4_socket = socket.socket(AF_INET, ...), or socket() raises
\* OSError (no permission for the socket type).
CtorSocket4(c) ==
    /\ caller[c].pc = "ctor_v4"
    /\ \/ /\ icmp_ping' = [icmp_ping EXCEPT !.v4 = TRUE]
          /\ caller' = [caller EXCEPT ![c].pc = "ctor_v6"]
       \/ /\ caller' = [caller EXCEPT ![c] = [Idle EXCEPT !.exc = "OSError"]]
          /\ UNCHANGED icmp_ping
    /\ UNCHANGED <<hosts, kind, interval, port, sort_key, table, signalVars, status,
                   resultVars,
                   threadVars, joined, rcv>>

\* Ping.icmpv6_socket = socket.socket(AF_INET6, ...), or socket() raises
\* OSError (no IPv6 support).
CtorSocket6(c) ==
    /\ caller[c].pc = "ctor_v6"
    /\ \/ /\ icmp_ping' = [icmp_ping EXCEPT !.v6 = TRUE]
          /\ caller' = [caller EXCEPT ![c].pc = "ctor_thread"]
       \/ /\ caller' = [caller EXCEPT ![c] = [Idle EXCEPT !.exc = "OSError"]]
          /\ UNCHANGED icmp_ping
    /\ UNCHANGED <<hosts, kind, interval, port, sort_key, table, signalVars, status,
                   resultVars,
                   threadVars, joined, rcv>>

\* threading.Thread(target=Ping.receiver, daemon=True).start();
\* super().__init__(*args, **kwargs)
CtorThread(c) ==
    /\ caller[c].pc = "ctor_thread"
    /\ icmp_ping' = Built([icmp_ping EXCEPT !.receivers = @ + 1])
    /\ caller' = [caller EXCEPT ![c] = Idle]
    /\ UNCHANGED <<hosts, kind, interval, port, sort_key, table, signalVars, status,
                   resultVars,
                   threadVars, joined, rcv>>

\* The steps inside icmp.Ping.__init__ of caller c.
ConstructStep(c) ==
    \/ CtorCheck(c)
    \/ CtorSocket4(c)
    \/ CtorSocket6(c)
    \/ CtorThread(c)

\* ------------------------------------------------------------ the table

\* The hosts in the order the layout holds them (their natural order).
HostList == <<"h1", "h2">>

\* The rank host_results_sort_key gives a host without a value.
NoValueRank == 1000000

\* A sort key that ranks a missing value below every value.
HostResultsSortKeyLow(h, stat) ==
    LET value == results_summary(h)[stat]
    IN  IF value # Null THEN value ELSE <<-1, 1>>

\* host_results_sort_key: the value of the summary if it is not None,
\* otherwise 10**6.  stdev is compared through its square in seconds squared
\* (stdev * 1000 < 10**6 iff the variance is below 10**6).
host_results_sort_key(h, stat) ==
    LET value == results_summary(h)[stat]
        scaled == IF stat = "stdev" THEN <<value[1] \div 1000000, value[2]>>
                  ELSE value
    IN  IF value # Null THEN scaled ELSE <<NoValueRank, 1>>

\* The key function sort_hosts chooses for column col.
SortKey(h, col) ==
    IF col = 1 THEN <<CHOOSE i \in 1..Len(HostList) : HostList[i] = h, 1>>
    ELSE IF col \in 2..6
    THEN host_results_sort_key(h, <<"min", "avg", "max", "stdev", "loss">>[col - 1])
    ELSE <<0, 1>>

\* x is placed before y: its key is smaller (larger when reversed).
Before(x, y, col, reverse) ==
    LET a == SortKey(x, col)
        b == SortKey(y, col)
    IN  IF reverse THEN a[1] * b[2] > b[1] * a[2] ELSE a[1] * b[2] < b[1] * a[2]

\* sorted(): x joins a sorted list behind every item it is not before, so
\* that items with equal keys keep their order.
RECURSIVE Insert(_, _, _, _)
Insert(s, x, col, reverse) ==
    IF s = <<>> THEN <<x>>
    ELSE IF Before(x, s[Len(s)], col, reverse)
         THEN Append(Insert(SubSeq(s, 1, Len(s) - 1), x, col, reverse), s[Len(s)])
         ELSE Append(s, x)

RECURSIVE SortedPrefix(_, _, _, _)
SortedPrefix(s, n, col, reverse) ==
    IF n = 0 THEN <<>>
    ELSE Insert(SortedPrefix(s, n - 1, col, reverse), s[n], col, reverse)

\* sort_hosts(hosts, sort_key): no sorting for key 0 (or None).
sort_hosts(s, key) ==
    IF key = 0 THEN s
    ELSE SortedPrefix(s, Len(s), IF key < 0 THEN -key ELSE key, key < 0)

\* get_table_sort_key(new, current): ascending, then descending, then none.
get_table_sort_key(new, current) ==
    IF (IF current < 0 THEN -current ELSE current) = new
    THEN IF current < 0 THEN 0 ELSE -current
    ELSE new

\* Layout.render, from one return of getch to the next: a key from '0' to
\* '6' changes sort_key (button -1: no key within the refresh time), then
\* table = get_table(self.hosts, sort_key) reads (and caches) the summary of
\* every host and the table is drawn.
RenderLoop(button) ==
    /\ sort_key' = IF button \in 0..6 THEN get_table_sort_key(button, sort_key)
                   ELSE sort_key
    /\ table' = sort_hosts(HostList, sort_key')
    /\ cache' = [h \in AllHosts |-> [valid |-> TRUE, value |-> results_summary(h)]]
    /\ UNCHANGED <<hosts, kind, interval, port, icmp_ping, signalVars, status,
                   raw_results, maxlen, next_rid, threadVars, caller, joined, rcv>>

\* host.add_result(lat) called through the API.
CallAddLatency(c, h, lat) ==
    /\ IsIdle(c)
    /\ next_rid[h] <= MaxProbes
    /\ AddResult(h, Result(next_rid[h], lat, FALSE, FALSE, -1))
    /\ UNCHANGED <<hostVars, signalVars, status, threadVars, caller, joined, rcv>>

\* ------------------------------------------------------ the specifications

\* Hosts hs constructed (h1 of protocol kd, the others ICMP), those of
\* started with their probe thread launched.
InitProcess(hs, kd, started, cls) ==
    /\ hosts = hs
    /\ kind = [h \in AllHosts |-> IF h = "h1" THEN kd ELSE "icmp"]
    /\ interval = Interval0
    /\ port = [isint |-> TRUE, val |-> 1]
    /\ icmp_ping = cls
    /\ sort_key = 0
    /\ table = <<>>
    /\ burst_mode = [h \in AllHosts |-> FALSE]
    /\ stop_signal = [h \in AllHosts |-> FALSE]
    /\ ready_signal = [h \in AllHosts |-> FALSE]
    /\ status = [h \in AllHosts |-> NoneVal]
    /\ raw_results = [h \in AllHosts |-> <<>>]
    /\ maxlen = [h \in AllHosts |-> RESULTS_LENGTH_MINIMUM]
    /\ next_rid = [h \in AllHosts |-> 1]
    /\ cache = [h \in AllHosts |-> NoCache]
    /\ test_thread = [h \in AllHosts |-> IF h \in started THEN 1 ELSE 0]
    /\ thr = [h \in AllHosts |-> [k \in Threads |->
                 IF h \in started /\ k = 1 THEN [Unborn EXCEPT !.pc = "delay"]
                 ELSE Unborn]]
    /\ host_map = [id \in Idents |-> NoEntry]
    /\ network = {}
    /\ caller = [c \in Callers |-> Idle]
    /\ joined = [h \in AllHosts |-> FALSE]
    /\ rcv = Serving

\* The hosts of a protocol object whose construction has completed.
InitHosts(hs, kd, started) == InitProcess(hs, kd, started, Constructed)

InitHost(kd, started) == InitHosts({"h1"}, kd, started)

\* One host, ICMP or TCP, just constructed.
Init == \E kd \in {"icmp", "tcp"} : InitHost(kd, {})

\* The same host after its first start(): the probe thread is launched.
InitStarted == \E kd \in {"icmp", "tcp"} : InitHost(kd, {"h1"})

\* The steps inside the lifecycle calls of caller c.
LifecycleStep(c) ==
    \/ PatchedStep(c)
    \/ StartCheck(c)
    \/ StopJoin(c)

\* The steps inside the calls of caller c on the results.
StoreStep(c) ==
    \/ SrlCheck(c)
    \/ SrlCopy(c)
    \/ SrlStore(c)

\* The lifecycle calls the renderer makes: burst mode, start, stop.
LifecycleCall(c) ==
    \E h \in hosts :
        \/ \E v \in BOOLEAN : CallMember(c, h, "burst", v)
        \/ CallStart(c, h)
        \/ \E block \in BOOLEAN : CallStop(c, h, block)

\* The calls the renderer makes on the results: resize, read the summary.
StoreCall(c) ==
    \E h \in hosts :
        \/ \E length \in Lengths : CallSetResultsLength(c, h, length)
        \/ ReadSummary(c, h)

Probers == \E h \in hosts, k \in Threads : ProberStep(h, k)

\* The program's lifecycle: the renderer (caller c1) starting and stopping
\* the host and switching burst mode, the probe threads, the receiver.
Next ==
    \/ LifecycleCall("c1")
    \/ LifecycleStep("c1")
    \/ Probers
    \/ ReceiverStep

Spec == Init /\ [][Next]_vars


\* The lifecycle under fair scheduling: every probe thread that can take a
\* step eventually takes one (the OS schedules it, and every wait of the
\* loops has a timeout).
SpecLive == Spec /\ \A h \in AllHosts, k \in Threads : WF_vars(ProberStep(h, k))

\* Two API callers at once: c1 sets and clears burst_mode while c2 sets and
\* clears stop_signal.
MemberOf(c) == IF c = "c1" THEN "burst" ELSE "stop"

NextConc ==
    \E c \in Callers :
        \/ \E h \in hosts, v \in BOOLEAN : CallMember(c, h, MemberOf(c), v)
        \/ PatchedStep(c)

SpecConc == Init /\ [][NextConc]_vars

\* The renderer resizing the ring and reading the summary while the host
\* probes.
NextStore ==
    \/ StoreCall("c1")
    \/ StoreStep("c1")
    \/ Probers
    \/ ReceiverStep

SpecStore == InitStarted /\ [][NextStore]_vars

\* The ring alone: add_result and set_results_length called one after the
\* other through the API, as the tests do.
NextRing ==
    \/ \E h \in hosts : CallAddResult("c1", h)
    \/ \E h \in hosts, length \in Lengths : CallSetResultsLength("c1", h, length)
    \/ SrlCheck("c1")
    \/ SrlCopy("c1")
    \/ SrlStore("c1")

SpecRing == InitHost("icmp", {}) /\ [][NextRing]_vars

\* The start and stop calls of the renderer (modern.py calls stop() without
\* block).
RestartCall(c) ==
    \E h \in hosts :
        \/ CallStart(c, h)
        \/ CallStop(c, h, FALSE)

\* An ICMP host started and stopped while the receiver serves the replies to
\* its probes and the stray datagrams.
NextReply ==
    \/ RestartCall("c1")
    \/ PatchedStep("c1")
    \/ StartCheck("c1")
    \/ Probers
    \/ ReceiverStep
    \/ \E d \in Strays : Inject(d)

SpecReply == InitHost("icmp", {}) /\ [][NextReply]_vars

\* Two ICMP hosts started by stagger_start (the start delay and the name
\* resolution of each take any time), probing without an answer until the
\* renderer stops them.
NextRegistry ==
    \/ \E h \in hosts : CallStop("c1", h, FALSE)
    \/ PatchedStep("c1")
    \/ Probers

\* A started ICMP host probing and being stopped while the receiver thread
\* runs statement by statement.
NextReceiver ==
    \/ \E h \in hosts : CallStop("c1", h, FALSE)
    \/ PatchedStep("c1")
    \/ Probers
    \/ RcvStep

SpecReceiver == InitHost("icmp", {"h1"}) /\ [][NextReceiver]_vars

SpecRegistry == InitHosts(AllHosts, "icmp", AllHosts) /\ [][NextRegistry]_vars

\* Two ICMP hosts started by stagger_start, probing (a host leaves its loop
\* when its send fails) while the receiver serves the replies.
NextShared ==
    \/ Probers
    \/ ReceiverStep

SpecShared == InitHosts(AllHosts, "icmp", AllHosts) /\ [][NextShared]_vars

\* A TCP host and an ICMP host started by stagger_start, probing until the
\* renderer stops them.
SpecTcp == InitHosts(AllHosts, "tcp", AllHosts) /\ [][NextRegistry]_vars

\* A started host, ICMP or TCP, probing while an API caller assigns the
\* protocol's port and interval.
NextSettings ==
    \/ \E v \in PortValues : SetPort("c1", v)
    \/ \E v \in Intervals : SetInterval("c1", v)
    \/ Probers
    \/ ReceiverStep

SpecSettings == InitStarted /\ [][NextSettings]_vars

\* The process before any icmp.Ping exists: callers constructing protocol
\* objects, one after the other or at the same time.
NextConstruct ==
    \E c \in Callers :
        \/ CallConstruct(c)
        \/ ConstructStep(c)

SpecConstruct ==
    InitProcess({}, "icmp", {}, NotConstructed) /\ [][NextConstruct]_vars

\* The table of two hosts that are not probing: results are added through
\* the API while the layout renders and the operator presses the sort keys.
NextSort ==
    \/ \E h \in hosts, lat \in Latencies \cup {-1} : CallAddLatency("c1", h, lat)
    \/ \E button \in -1..6 : RenderLoop(button)

SpecSort == InitHosts(AllHosts, "icmp", {}) /\ [][NextSort]_vars


\* ------------------------------------------------------------------ claims

\* Caller c is inside a patched set() or clear() of a member.
InPatched(c) == caller[c].pc \in {"ev_orig", "upd_burst", "upd_stop", "upd_write"}

\* C1: with the members' set() and clear() called one at a time (all by the
\* renderer, directly or through start() and stop()), whenever no such call is
\* in progress the shared event ready_signal is set iff burst_mode or
\* stop_signal is set.
C1_SharedIffAnyMember ==
    \A h \in hosts :
        ~InPatched("c1") => (ready_signal[h] <=> (burst_mode[h] \/ stop_signal[h]))

\* C1 witness: after stop() on a host without burst mode, the shared event is
\* set through stop_signal alone.
C1_Witness ==
    /\ IsIdle("c1")
    /\ stop_signal["h1"] /\ ~burst_mode["h1"] /\ ready_signal["h1"]
    /\ test_thread["h1"] # 0

\* C2: with two threads calling set() and clear() on different members at the
\* same time, whenever no member call is in progress the shared event is set
\* iff a member is set.
C2_NoStaleShared ==
    \A h \in hosts :
        (\A c \in Callers : ~InPatched(c))
            => (ready_signal[h] <=> (burst_mode[h] \/ stop_signal[h]))

\* C3: at most one probe thread of a host is alive, and is_running() is true
\* exactly when a probe thread of the host is alive.
C3_OneProbeThread ==
    \A h \in hosts :
        /\ Cardinality({k \in Threads : IsAlive(h, k)}) <= 1
        /\ is_running(h) <=> (\E k \in Threads : IsAlive(h, k))

\* C3 witness: the host was started, its first thread exited, and a second
\* start() launched the thread that is now alive.
C3_Witness ==
    /\ thr["h1"][1].pc = "dead"
    /\ IsAlive("h1", 2)
    /\ is_running("h1")

\* C4: a probe thread alive while stop_signal is set eventually exits, unless
\* stop_signal is cleared first.
C4_StopLeadsToExit ==
    \A h \in AllHosts, k \in Threads :
        (stop_signal[h] /\ IsAlive(h, k)) ~> (~stop_signal[h] \/ ~IsAlive(h, k))

\* C4 witness: stop_signal is set while the probe thread is suspended in its
\* inter-probe wait.
C4_Witness == stop_signal["h1"] /\ thr["h1"][1].pc = "sleep"

\* The identities of the results in the ring of host h.
Rids(raw) == {raw[i].rid : i \in 1..Len(raw)}

\* C5: from the return of stop(block=True) until the next start(),
\* is_running() is false and no result is appended.
C5_StoppedStaysStopped ==
    /\ [](\A h \in hosts : joined[h] => ~is_running(h))
    /\ [][\A h \in hosts :
            joined[h] => Rids(raw_results'[h]) \subseteq Rids(raw_results[h])]_vars

\* C5 witness: stop(block=True) has returned on a host that had probed.
C5_Witness == joined["h1"] /\ Len(raw_results["h1"]) > 0

\* This step is a step of a start() call of the renderer on host h.
StartStep(h) ==
    \/ IsIdle("c1") /\ caller'["c1"].ret = "start_check" /\ caller'["c1"].h = h
    \/ /\ caller["c1"].ret = "start_check" /\ caller["c1"].h = h
       /\ caller'["c1"] # caller["c1"]

\* What start() has no reason to touch: the threads, burst mode, the ring.
StartFrame(h) ==
    /\ thr'[h] = thr[h] /\ test_thread'[h] = test_thread[h]
    /\ burst_mode'[h] = burst_mode[h]
    /\ raw_results'[h] = raw_results[h] /\ maxlen'[h] = maxlen[h]
    /\ cache'[h] = cache[h]
    /\ host_map' = host_map /\ network' = network

\* C6 as claimed: a step of start() taken while the probe thread is running
\* changes nothing of the host: no thread is created, and status, stop_signal
\* and the rest are as before.
C6_StartWhileRunningNoOp ==
    [][\A h \in hosts :
          (StartStep(h) /\ is_running(h))
              => /\ StartFrame(h)
                 /\ status'[h] = status[h]
                 /\ stop_signal'[h] = stop_signal[h]
                 /\ ready_signal'[h] = ready_signal[h]]_vars

\* C6 amended: a step of start() taken while the probe thread is running
\* creates no thread and changes nothing but status (set to None), stop_signal
\* (cleared) and ready_signal (recomputed from the members); with status None
\* and stop_signal clear already, it changes nothing.
C6_StartWhileRunning ==
    [][\A h \in hosts :
          (StartStep(h) /\ is_running(h))
              => /\ StartFrame(h)
                 /\ status'[h] \in {status[h], NoneVal}
                 /\ stop_signal'[h] \in {stop_signal[h], FALSE}
                 /\ \/ ready_signal'[h] = ready_signal[h]
                    \/ ready_signal'[h] = (burst_mode'[h] \/ stop_signal'[h])
                 /\ (status[h] = NoneVal /\ ~stop_signal[h]
                        /\ ready_signal[h] = burst_mode[h])
                    => /\ status'[h] = status[h]
                       /\ stop_signal'[h] = stop_signal[h]
                       /\ ready_signal'[h] = ready_signal[h]]_vars

\* C6 witness: start() has cleared stop_signal and is about to find the probe
\* thread running.
C6_Witness ==
    /\ caller["c1"].pc = "start_check"
    /\ is_running("h1")
    /\ Len(raw_results["h1"]) > 0

\* C7: the ring never holds more results than its capacity, the capacity is
\* at least 50, and an append to a full ring drops the oldest result.
C7_RingBounded ==
    /\ [](\A h \in hosts : /\ Len(raw_results[h]) <= maxlen[h]
                           /\ maxlen[h] >= 50)
    /\ [][\A h \in hosts :
            (next_rid'[h] # next_rid[h] /\ Len(raw_results[h]) = maxlen[h])
                => /\ Len(raw_results'[h]) = Len(raw_results[h])
                   /\ \A i \in 1..(Len(raw_results[h]) - 1) :
                         raw_results'[h][i] = raw_results[h][i + 1]
                   /\ raw_results'[h][Len(raw_results[h])].rid = next_rid[h]]_vars

\* C7 witness: the ring is full and its oldest results have been dropped.
C7_Witness ==
    /\ Len(raw_results["h1"]) = maxlen["h1"]
    /\ raw_results["h1"][1].rid > 1

\* C8: the step that completes set_results_length(n) leaves the capacity at
\* max(n, 50) and the ring holding the newest min(len, capacity) of the
\* results it held, in their order: all of them when the capacity suffices.
C8_ResizePreserves ==
    [][\A h \in hosts :
          (caller["c1"].pc \in {"srl_check", "srl_store"} /\ caller["c1"].h = h
              /\ IsIdle("c1")')
          => LET n == caller["c1"].n
                 old == raw_results[h]
                 new == raw_results'[h]
             IN  /\ maxlen'[h] = (IF n >= 50 THEN n ELSE 50)
                 /\ Len(new) = (IF Len(old) <= maxlen'[h] THEN Len(old)
                                ELSE maxlen'[h])
                 /\ \A i \in 1..Len(new) : new[i] = old[Len(old) - Len(new) + i]]_vars

\* C8 witness: a shrinking resize has built a ring shorter than the results
\* held and is about to store it.
C8_Witness ==
    /\ caller["c1"].pc = "srl_store"
    /\ Len(caller["c1"].copy) < Len(raw_results["h1"])

\* C9: once a resize has completed, every result appended so far is in the
\* ring (none is old enough to have been dropped): no append is lost to a
\* concurrent resize.
C9_NoResultLost ==
    \A h \in hosts :
        IsIdle("c1") => \A rid \in 1..(next_rid[h] - 1) : rid \in Rids(raw_results[h])

\* C10: whenever the renderer can read results_summary, what it reads is the
\* summary of the results visible at that moment.
C10_SummaryFresh ==
    \A h \in hosts :
        IsIdle("c1") => results_summary(h) = GetResultsSummary(Results(raw_results[h]))


\* The number of results of s that are successful (latency >= 0).
Successes(s) == Len(SelectSeq(s, LAMBDA x : x.latency >= 0))

\* C11: the summary's loss is null iff the host has no visible result, and
\* otherwise is 1 - successes / visible, so 1 when every visible result is a
\* timeout.
C11_LossOverVisible ==
    \A h \in hosts :
        LET visible == Results(raw_results[h])
            loss == GetResultsSummary(visible).loss
        IN  /\ (loss = Null) <=> (Len(visible) = 0)
            /\ Len(visible) > 0
                  => loss = <<Len(visible) - Successes(visible), Len(visible)>>


\* The receiver takes datagram p off the socket in this step and is done with
\* it in the same step.
Received(p) == p \in network /\ network' = network \ {p} /\ rcv'.pc = "select"

\* Datagram p is a whole packet whose payload identifier is in the registry.
Registered(p) ==
    /\ p.size >= PacketSize
    /\ p.ident \in Idents /\ host_map[p.ident].host \in hosts

\* The positions of the results of host h whose info is the sequence seq.
Matches(h, seq) == {i \in 1..Len(raw_results[h]) : raw_results[h][i].info = seq}

\* The oldest of them.
Oldest(S) == CHOOSE i \in S : \A j \in S : i <= j

\* C12: when the receiver handles a reply with a registered identifier whose
\* sequence is the info of a result of that host, it writes the latency into
\* that result (the oldest with that info), and when the latency is at most
\* the registered interval it sets the host's reply event and leaves the
\* result's error flag as it was.
C12_OnTimeReply ==
    [][\A p \in network :
          (Received(p) /\ Registered(p)
              /\ Matches(host_map[p.ident].host, p.seq) # {})
          => LET e == host_map[p.ident]
                 i == Oldest(Matches(e.host, p.seq))
                 r == raw_results'[e.host][i]
             IN  /\ r.latency \in Latencies
                 /\ r.latency <= e.interval
                       => /\ thr'[e.host][e.k].event
                          /\ r.error = raw_results[e.host][i].error]_vars

\* C12 witness: the probe loop is waiting for its reply with the event set
\* and the on-time latency in its result.
C12_Witness ==
    \E k \in Threads :
        /\ thr["h1"][k].pc = "await" /\ thr["h1"][k].event
        /\ \E i \in 1..Len(raw_results["h1"]) :
              /\ raw_results["h1"][i].rid = thr["h1"][k].rid
              /\ raw_results["h1"][i].latency = 0
              /\ ~raw_results["h1"][i].error

\* C13: when the receiver handles a reply to a still-registered host whose
\* latency is greater than the registered interval, it marks the result with
\* error = true and the latency, and changes nothing of any probe thread: the
\* reply event is not set and no wait is ended.
C13_LateReply ==
    [][\A p \in network :
          (Received(p) /\ Registered(p)
              /\ Matches(host_map[p.ident].host, p.seq) # {})
          => LET e == host_map[p.ident]
                 i == Oldest(Matches(e.host, p.seq))
                 r == raw_results'[e.host][i]
             IN  r.latency > e.interval
                    => /\ r.error
                       /\ r.latency \in Latencies
                       /\ thr' = thr
                       /\ signalVars' = signalVars]_vars

\* C13 witness: a result marked as a late reply while the loop that sent the
\* probe, still registered, is in a wait with its event clear.
C13_Witness ==
    \E k \in Threads, i \in 1..Len(raw_results["h1"]) :
        /\ raw_results["h1"][i].latency = 2 /\ raw_results["h1"][i].error
        /\ thr["h1"][k].pc \in {"await", "sleep"} /\ ~thr["h1"][k].event
        /\ host_map[thr["h1"][k].ident].host = "h1"

C15_StrayDropped ==
    [][\A p \in network :
          (/\ p \in network /\ network' = network \ {p}
           /\ \/ p.size < PacketSize
              \/ ~Registered(p)
              \/ Matches(host_map[p.ident].host, p.seq) = {})
          => /\ <<raw_results, maxlen, next_rid>>' = <<raw_results, maxlen, next_rid>>
             /\ thr' = thr
             /\ <<signalVars, status, host_map>>' = <<signalVars, status, host_map>>
             /\ rcv'.pc = "select" /\ rcv'.err = NoneVal]_vars

\* C15 witness: a short datagram that read as the identifier and sequence of
\* the probe in flight was discarded, and the probe is still waiting.
C15_Witness ==
    /\ rcv.malformed
    /\ network \cap Strays = {}
    /\ \E k \in Threads :
          /\ thr["h1"][k].pc = "await" /\ ~thr["h1"][k].event
          /\ thr["h1"][k].ident = 1 /\ thr["h1"][k].seq = 0
          /\ ResultLatency(raw_results["h1"], thr["h1"][k].rid) = -1


\* Thread k of host h is in its probe loop, registered and not yet through
\* host_map.pop.
InLoop(h, k) ==
    thr[h][k].pc \in {"loop", "clear", "reserve", "send", "await", "unhide",
                      "wait", "sleep", "unregister"}

\* C16: the registry holds an entry for a host exactly while a probe loop of
\* the host is between its registration and its exit.
C16_EntryWhileLooping ==
    \A h \in hosts :
        (\E id \in Idents : host_map[id].host = h) <=> (\E k \in Threads : InLoop(h, k))

\* Thread k of host h holds a session: from Session() to the exit of the loop.
HasSession(h, k) == InLoop(h, k) \/ thr[h][k].pc = "register"

\* C17: no two hosts whose probe threads hold a session hold the same
\* identifier, and a registered loop's entry is its own host's.
C17_UniqueIdentifiers ==
    \A h \in hosts, g \in hosts, k \in Threads, j \in Threads :
        /\ (h # g /\ HasSession(h, k) /\ HasSession(g, j))
              => thr[h][k].ident # thr[g][j].ident
        /\ InLoop(h, k) => host_map[thr[h][k].ident].host = h


\* C18: the receiver does not fail on the registry: an identifier popped by
\* its probe loop between the receiver's membership test and its lookup does
\* not end the receiver thread.
C18_LookupSafe == ~(rcv.pc = "failed" /\ rcv.err = "KeyError")

\* C19: the receiver's walk over a host's results does not fail when a
\* result is appended meanwhile, and a walk that finds nothing ends with no
\* result of that sequence in the ring.
C19_WalkSafe ==
    /\ [](~(rcv.pc = "failed" /\ rcv.err = "RuntimeError"))
    /\ [][(rcv.pc = "walk" /\ rcv'.pc = "select")
             => Matches(rcv.e.host, rcv.p.seq) = {}]_vars

\* C20: no reader of host.results sees a late reply's result with its latency
\* and without its error flag: every visible result whose latency is above the
\* interval is marked as an error.
C20_ResultSnapshot ==
    \A h \in hosts :
        \A i \in 1..Len(Results(raw_results[h])) :
            LET r == Results(raw_results[h])[i]
            IN  r.latency > interval => r.error

\* C21: when the name resolution of a host fails, its status becomes 'Host
\* resolution failed' and its loop returns at that step: nothing is sent,
\* no result is appended, the host is not registered with the receiver, and
\* the thread and the status of every other host are left as they were; a
\* resolution that succeeds leaves the status alone.
C21_ResolutionFailure ==
    [][\A h \in hosts, k \in Threads :
          thr[h][k].pc = "resolve" /\ thr'[h][k].pc # thr[h][k].pc =>
              \/ /\ thr'[h][k].pc \in {"session", "connect"}
                 /\ status' = status
              \/ /\ status'[h] = "Host resolution failed"
                 /\ thr'[h][k] = Dead
                 /\ raw_results' = raw_results
                 /\ network' = network
                 /\ host_map' = host_map
                 /\ \A g \in hosts \ {h} :
                       thr'[g] = thr[g] /\ status'[g] = status[g]]_vars

\* The resolution of the TCP host failed: it has no result and no live
\* thread, while the ICMP host was registered and has probed.
C21_Witness ==
    /\ status["h1"] = "Host resolution failed"
    /\ thr["h1"][1] = Dead
    /\ raw_results["h1"] = <<>>
    /\ status["h2"] = NoneVal
    /\ Len(raw_results["h2"]) > 0
    /\ \E id \in Idents : host_map[id].host = "h2"

\* C22: when sendto raises OSError, the host's status becomes the error
\* message, its loop leaves for the unregistration and ends there, and the
\* unregistration takes from the receiver's registry nothing but that host's
\* own entry: the entries of the other hosts stay.
C22_SendFailureScoped ==
    [][\A h \in hosts, k \in Threads :
          /\ thr[h][k].pc = "send" /\ thr'[h][k].pc # "send" =>
                \/ thr'[h][k].pc = "await" /\ status' = status
                \/ /\ thr'[h][k].pc = "unregister"
                   /\ status'[h] = "OSError"
                   /\ \A g \in hosts \ {h} : status'[g] = status[g]
          /\ thr[h][k].pc = "unregister" /\ status[h] = "OSError"
                /\ thr'[h][k].pc # thr[h][k].pc =>
                /\ thr'[h][k] = Dead
                /\ \A id \in Idents :
                      host_map[id].host # h => host_map'[id] = host_map[id]]_vars

\* C23: Host.wait(latency) returns at once when the latency is -1 or burst
\* mode is set; otherwise it waits on the ready signal with a timeout of the
\* interval less the latency, and that wait ends before its timeout only
\* with the ready signal set.
C23_InterProbeWait ==
    [][\A h \in hosts, k \in Threads :
          /\ thr[h][k].pc = "wait" /\ thr'[h][k].pc # thr[h][k].pc =>
                IF thr[h][k].latency = -1 \/ burst_mode[h]
                THEN thr'[h][k].pc = "loop" /\ thr'[h][k].timeout = 0
                ELSE /\ thr'[h][k].pc = "sleep"
                     /\ thr'[h][k].timeout = interval - thr[h][k].latency
          /\ thr[h][k].pc = "sleep" /\ thr'[h][k].pc # thr[h][k].pc =>
                /\ thr'[h][k].pc = "loop"
                /\ thr'[h][k].woken =>
                      ready_signal[h] /\ thr[h][k].timeout > 0]_vars

\* A wait of Host.wait, entered after a reply with a timeout of one tick,
\* was ended early by the ready signal.
C23_Witness ==
    \E k \in Threads :
        /\ thr["h1"][k].pc = "loop"
        /\ thr["h1"][k].woken
        /\ thr["h1"][k].latency = 0
        /\ ready_signal["h1"]

\* The inter-probe wait of thread k of host h is blocked until its timeout:
\* there is time left and the event it waits on (ready_signal in Host.wait,
\* stop_signal in the TCP loop) is not set.
Blocked(h, k) ==
    /\ thr[h][k].timeout > 0
    /\ \/ thr[h][k].pc = "sleep" /\ ~ready_signal[h]
       \/ thr[h][k].pc = "tsleep" /\ ~stop_signal[h]

\* C24: a prober, ICMP or TCP, in its inter-probe wait is woken when burst
\* mode or the stop signal is set: once the call that set it has returned,
\* the wait is not blocked.  After a burst-mode wake-up the next wait is
\* skipped (Host.wait returns at once, the TCP timeout is 0), and a loop that
\* finds the stop signal set exits.
C24_SignalWakesProber ==
    /\ [](\A h \in hosts, k \in Threads :
             ~InPatched("c1") /\ (burst_mode[h] \/ stop_signal[h])
                 => ~Blocked(h, k))
    /\ [][\A h \in hosts, k \in Threads :
             /\ thr[h][k].pc = "wait" /\ burst_mode[h]
                   /\ thr'[h][k].pc # thr[h][k].pc => thr'[h][k].pc = "loop"
             /\ thr[h][k].pc = "connect" /\ burst_mode[h]
                   /\ thr'[h][k].pc = "tsleep" => thr'[h][k].timeout = 0
             /\ thr[h][k].pc = "loop" /\ stop_signal[h]
                   /\ thr'[h][k].pc # thr[h][k].pc => thr'[h][k].pc = "unregister"
             /\ thr[h][k].pc = "tsleep" /\ stop_signal[h]
                   /\ thr'[h][k].pc # thr[h][k].pc => thr'[h][k].pc = "dead"]_vars

\* The result a step appended to the ring of host h.
Appended(h) == raw_results'[h][Len(raw_results'[h])]

\* C25: every TCP probe appends exactly one result, visible at once: a
\* handshake gives a latency of 0 or more without error, a refusal or reset a
\* latency of 0 or more with error, a timeout or a host that is down a
\* latency of -1 without error.
C25_TcpProbeResult ==
    [][\A h \in hosts, k \in Threads :
          thr[h][k].pc = "connect" /\ thr'[h][k].pc = "tsleep" =>
              /\ Len(raw_results'[h]) = Len(raw_results[h]) + 1
              /\ SubSeq(raw_results'[h], 1, Len(raw_results[h])) = raw_results[h]
              /\ ~Appended(h).hidden
              /\ thr'[h][k].outcome = "open" =>
                    Appended(h).latency >= 0 /\ ~Appended(h).error
              /\ thr'[h][k].outcome = "refused" =>
                    Appended(h).latency >= 0 /\ Appended(h).error
              /\ thr'[h][k].outcome \in {"timeout", "oserror"} =>
                    Appended(h).latency = -1 /\ ~Appended(h).error]_vars

\* A TCP host whose first probe was refused and whose second timed out.
C25_Witness ==
    /\ kind["h1"] = "tcp"
    /\ Len(raw_results["h1"]) = 2
    /\ raw_results["h1"][1].latency >= 0 /\ raw_results["h1"][1].error
    /\ raw_results["h1"][2].latency = -1 /\ ~raw_results["h1"][2].error
    /\ \E k \in Threads : thr["h1"][k].outcome = "timeout"

\* C26: every TCP probe connects to the port the protocol holds when the
\* probe is made: after protocol.port is assigned, the next probe of the
\* running loop goes to the new port.
C26_PortReadEachProbe ==
    [][\A h \in hosts, k \in Threads :
          thr[h][k].pc = "connect" /\ thr'[h][k].pc = "tsleep" =>
              thr'[h][k].dest = port.val]_vars

\* The loop resolved the address with port 1, the port was changed to 2
\* after the first probe, and the second probe of the same thread went to
\* port 2.
C26_Witness ==
    /\ thr["h1"][1].pc = "tsleep"
    /\ thr["h1"][1].port = 1
    /\ thr["h1"][1].dest = 2
    /\ Len(raw_results["h1"]) = 2

\* C27: an OSError of the TCP socket calls that is not a refusal, a reset or
\* a timeout is swallowed (the host is taken as down, a result of latency -1
\* is appended and the loop goes on) if and only if its errno is in the
\* ignored set; otherwise it leaves the loop as a fatal error.
C27_IgnoredErrnoOnly ==
    [][\A h \in hosts, k \in Threads :
          /\ thr[h][k].pc = "connect"
          /\ thr'[h][k].pc # "connect"
          /\ thr'[h][k].outcome \in {"setup", "oserror"}
          => IF thr'[h][k].errno \in IGNORED_OS_ERRORS
             THEN /\ thr'[h][k].pc = "tsleep"
                  /\ Appended(h).latency = -1
             ELSE /\ thr'[h][k].pc = "dead"
                  /\ thr'[h][k].exc = "OSError"]_vars

\* C28: the TCP port stored is always an integer from 1 to 65535: assigning
\* a value that is not an int raises TypeError, an integer outside the range
\* raises ValueError, and both leave the stored port as it was; any other
\* value is stored.
C28_PortValid ==
    /\ [](port.isint /\ port.val \in 1..65535)
    /\ [][\A c \in Callers :
             caller'[c] # caller[c] /\ caller'[c].arg \in PortValues =>
                 LET v == caller'[c].arg IN
                 IF ~v.isint
                 THEN caller'[c].exc = "TypeError" /\ port' = port
                 ELSE IF v.val \notin 1..65535
                 THEN caller'[c].exc = "ValueError" /\ port' = port
                 ELSE caller'[c].exc = NoneVal /\ port' = v]_vars

\* The port was changed to 2, and a later assignment of 65536 was rejected
\* with ValueError and left it at 2.
C28_Witness ==
    /\ port.val = 2
    /\ caller["c1"].arg.val = 65536
    /\ caller["c1"].exc = "ValueError"

\* C29: every wait of a running loop takes its timeout from protocol.interval
\* as it is when the wait begins (the wait for the reply, Host.wait, the TCP
\* connect), and assigning the interval leaves the waits in progress with the
\* timeout they began with.
C29_IntervalNextWait ==
    [][\A h \in hosts, k \in Threads :
          /\ thr[h][k].pc # "await" /\ thr'[h][k].pc = "await" =>
                thr'[h][k].timeout = interval
          /\ thr[h][k].pc # "sleep" /\ thr'[h][k].pc = "sleep" =>
                thr'[h][k].timeout = interval - thr'[h][k].latency
          /\ thr[h][k].pc = "connect" /\ thr'[h][k].pc = "tsleep" =>
                thr'[h][k].ctimeout = interval
          /\ interval' # interval => thr'[h][k] = thr[h][k]]_vars

\* The interval was changed from 1 to 3 while the loop waited for its first
\* reply with a timeout of 1.
C29_Witness ==
    /\ interval = 3
    /\ thr["h1"][1].pc = "await"
    /\ thr["h1"][1].timeout = 1
    /\ Len(raw_results["h1"]) = 1

\* C30: whatever the number of icmp.Ping constructions, one after the other
\* or at the same time, the receiver thread is started exactly once: never
\* more than one receiver, and one receiver (with both sockets) as soon as
\* a construction has completed.
C30_OneReceiver ==
    /\ icmp_ping.receivers <= 1
    /\ icmp_ping.built > 0 =>
          icmp_ping.receivers = 1 /\ icmp_ping.v4 /\ icmp_ping.v6

\* ---------------------------------------------------------------- C31

\* The table on screen is current: every summary is the one it was sorted by.
Fresh == table # <<>> /\ \A h \in AllHosts : cache[h].valid

\* The statistic the table was sorted by.
SortedStat == <<"min", "avg", "max", "stdev", "loss">>[(IF sort_key < 0 THEN -sort_key ELSE sort_key) - 1]

NoValue(h) == cache[h].value[SortedStat] = Null

SortedByStat == Fresh /\ (sort_key \in 2..6 \/ -sort_key \in 2..6)

\* C31 as stated: sorted by a statistic column, ascending or descending, no
\* host without a value for the statistic stands before a host with a value.
C31_NoValueLast ==
    SortedByStat =>
        \A i, j \in 1..Len(table) :
            (NoValue(table[i]) /\ ~NoValue(table[j])) => j < i

\* C31 (amended): a host without a value for the statistic is ranked as if
\* its value were 10**6; against the hosts whose value is below 10**6 it
\* stands last when the order is ascending and first when it is descending.
C31_NoValueRank ==
    SortedByStat =>
        \A i, j \in 1..Len(table) :
            LET value == host_results_sort_key(table[j], SortedStat)
            IN  (/\ NoValue(table[i])
                 /\ ~NoValue(table[j])
                 /\ value[1] < NoValueRank * value[2])
                => IF sort_key > 0 THEN j < i ELSE i < j

\* Sorted descending by min, the host without results heads the table
\* although it comes second in the list of hosts.
C31_Witness ==
    /\ SortedByStat
    /\ sort_key = -2
    /\ table = <<"h2", "h1">>
    /\ NoValue("h2")
    /\ ~NoValue("h1")

\* ---------------------------------------------------------------- C32

\* The result reserved by thread k of host h, as the ring raw holds it
\* (a result with rid 0 when the ring no longer holds it).
Reserved(raw, h, k) ==
    IF \E i \in 1..Len(raw) : raw[i].rid = thr[h][k].rid
    THEN raw[CHOOSE i \in 1..Len(raw) : raw[i].rid = thr[h][k].rid]
    ELSE Result(0, -1, FALSE, TRUE, -1)

\* Thread k of host h ends its reply wait / makes its result visible.
WaitEnds(h, k) == thr[h][k].pc = "await" /\ thr'[h][k].pc = "unhide"

MakesVisible(h, k) == thr[h][k].pc = "unhide" /\ thr'[h][k].pc = "wait"

\* C32: the result reserved by an iteration is hidden while its probe is in
\* flight; a wait that ends by timeout makes it visible with latency -1 and
\* error false, a wait that ends by a reply makes it visible with the latency
\* the receiver wrote.
C32_HiddenWhileInFlight ==
    /\ [](\A h \in hosts, k \in Threads :
            thr[h][k].pc \in {"send", "await"} => Reserved(raw_results[h], h, k).hidden)
    /\ [][\A h \in hosts, k \in Threads :
            /\ (WaitEnds(h, k) /\ thr[h][k].event) => thr'[h][k].latency >= 0
            /\ MakesVisible(h, k) =>
                  LET r == Reserved(raw_results'[h], h, k)
                  IN  /\ ~r.hidden
                      /\ r.latency = thr[h][k].latency
                      /\ thr[h][k].latency = -1 => ~r.error]_vars

\* ---------------------------------------------------------------- C33

\* C33: a probe loop probes only in an iteration that begins with the stop
\* signal clear.  A loop that comes to the top of its first iteration with
\* the signal set (the host was stopped during the start delay or the name
\* resolution) leaves without appending a result, so without a probe, and a
\* loop that ends an iteration with the signal set begins no further one.
C33_NoProbeOnceStopped ==
    [][\A h \in hosts, k \in Threads :
        LET t == thr[h][k]
            u == thr'[h][k]
        IN  /\ (stop_signal[h] /\ t.rid = 0 /\ t.pc \in {"loop", "connect"}
                               /\ u.pc # t.pc)
                  => /\ raw_results'[h] = raw_results[h]
                     /\ u.pc \in {"unregister", "dead"}
            /\ (stop_signal[h] /\ t.pc \in {"loop", "tsleep"} /\ u.pc # t.pc)
                  => u.pc \in {"unregister", "dead"}]_vars

\* ---------------------------------------------------------------- C34

\* The newest result of a ring.
Newest(raw) == raw[Len(raw)]

\* C34: each echo request carries the session's previous sequence plus one
\* modulo 65536, and the result reserved in an iteration has as info the
\* sequence of the request sent in that iteration; between two requests the
\* session's sequence does not change.
C34_SequenceAdvances ==
    [][\A h \in hosts, k \in Threads :
        LET t == thr[h][k]
            u == thr'[h][k]
        IN  /\ (t.pc = "reserve" /\ u.pc = "send") =>
                  /\ u.seq = (t.seq + 1) % 65536
                  /\ Newest(raw_results'[h]).info = u.seq
                  /\ Newest(raw_results'[h]).rid = u.rid
            /\ (t.pc = "send" /\ u.pc = "await") =>
                  /\ network' = network \cup {[size |-> PacketSize,
                                               ident |-> t.ident,
                                               seq |-> t.seq]}
                  /\ Reserved(raw_results[h], h, k).info = t.seq
            /\ (t.pc \in {"loop", "clear", "send", "await", "unhide", "wait", "sleep"}
                    /\ u.pc # "dead") => u.seq = t.seq]_vars

\* A session that began with sequence 65535 has sent its first request with
\* sequence 0 and its second with sequence 1.
C34_Witness ==
    \E h \in hosts, k \in Threads :
        /\ thr[h][k].pc = "await"
        /\ thr[h][k].seq = 1
        /\ [size |-> PacketSize, ident |-> thr[h][k].ident, seq |-> 1] \in network
        /\ \E i \in 1..Len(raw_results[h]) :
              /\ raw_results[h][i].info = 0
              /\ raw_results[h][i + 1].info = 1
              /\ raw_results[h][i + 1].hidden

\* ---------------------------------------------------------------- C35

\* No call on the host is in progress, the stop signal is clear as the last
\* start() left it, and the host's probe thread has ended without a failure
\* (no status, no exception): the host is idle although it was started.
StartLost(h) ==
    /\ \A c \in Callers : IsIdle(c)
    /\ ~stop_signal[h]
    /\ test_thread[h] # 0
    /\ ~is_running(h)
    /\ status[h] = NoneVal
    /\ thr[h][test_thread[h]].exc = NoneVal

\* C35: a start() request is never lost; once start() has returned the host
\* has a probe thread that goes on probing, also when start() follows a
\* non-blocking stop() whose thread has left its loop but is still alive.
C35_StartNotLost == \A h \in hosts : ~StartLost(h)

\* ---------------------------------------------------------------- C36

\* C36: whenever the prober's wait on its reply event returns success, the
\* result reserved for the probe in flight holds a latency the receiver has
\* written (a latency >= 0), which the prober then takes as its own.
C36_SuccessMeansReply ==
    [][\A h \in hosts, k \in Threads :
        (WaitEnds(h, k) /\ thr[h][k].event) =>
            /\ Reserved(raw_results[h], h, k).latency >= 0
            /\ thr'[h][k].latency = Reserved(raw_results[h], h, k).latency]_vars

\* ---------------------------------------------------------------- C37

\* The positions of the hidden results of a ring.
Hidden(raw) == {i \in 1..Len(raw) : raw[i].hidden}

\* C37: a host has at most one hidden result at any time, and none when its
\* probe loop is not running (so every reserved result has been made visible
\* by the time its loop has ended).
C37_HiddenBounded ==
    \A h \in hosts :
        /\ Cardinality(Hidden(raw_results[h])) <= 1
        /\ ~is_running(h) => Hidden(raw_results[h]) = {}

\* ---------------------------------------------------------------- C38

\* Host h has sent no request yet: its first probe thread has not got beyond
\* the send of its first iteration.
NothingSent(h) ==
    \/ /\ thr[h][1].pc \in {"delay", "resolve", "session", "register", "loop",
                            "clear", "reserve"}
       /\ raw_results[h] = <<>>
    \/ /\ thr[h][1].pc = "send"
       /\ Len(raw_results[h]) = 1

\* C38: a reply to a request of host A never modifies a result or sets the
\* reply event of another host B: as long as B has sent no request of its
\* own, its reserved result keeps latency -1 and error false and its reply
\* event stays clear, whatever identifier B has registered with.
C38_RepliesStayWithSender ==
    \A h \in hosts :
        NothingSent(h) =>
            /\ ~thr[h][1].event
            /\ \A i \in 1..Len(raw_results[h]) :
                  raw_results[h][i].latency = -1 /\ ~raw_results[h][i].error

\* ---------------------------------------------------------------- C39

\* C39: the receiver's decision agrees with the prober's.  When the receiver
\* writes a latency to a result that the prober has already made visible as
\* a timeout, it marks the result as an error; and when it takes the reply
\* as on time (no error), the probe of that result is still in its reply
\* wait.  The interval may have been assigned in between.
C39_DecisionAgrees ==
    [][\A h \in hosts :
        Len(raw_results'[h]) = Len(raw_results[h]) =>
            \A i \in 1..Len(raw_results[h]) :
                LET r == raw_results[h][i]
                    w == raw_results'[h][i]
                IN  w.latency # r.latency =>
                      /\ (~r.hidden /\ r.latency = -1) => w.error
                      /\ ~w.error => \E k \in Threads :
                                        /\ thr[h][k].pc = "await"
                                        /\ thr[h][k].rid = r.rid]_vars

\* ---------------------------------------------------------------- C40

\* C40: no two results of the ring of an ICMP host carry the same sequence
\* as info, so the receiver's search, oldest first, for the sequence of the
\* probe in its reply wait ends on the result reserved for that probe.
C40_SequencesDistinct ==
    \A h \in hosts :
        kind[h] = "icmp" =>
            /\ \A i, j \in 1..Len(raw_results[h]) :
                  raw_results[h][i].info = raw_results[h][j].info => i = j
            /\ \A k \in Threads :
                  thr[h][k].pc = "await" =>
                      LET i == FindResult(raw_results[h], thr[h][k].seq)
                      IN  i # 0 /\ raw_results[h][i].rid = thr[h][k].rid

====
